---- MODULE Spec2Model ----
(***************************************************************************)
(* Model of the test-components-demo repository: two greeting components   *)
(* (HelloWorld, HelloPerson), the tests that mount them into the single    *)
(* simulated document and query it by text, and the afterEach hook of      *)
(* setupTests.js that cleans the document between tests.                   *)
(*                                                                         *)
(* Text is a sequence of one-character strings, so that rendering and      *)
(* matching are computed character by character.                           *)
(***************************************************************************)
EXTENDS Integers, Sequences, FiniteSets

\* ---------------------------------------------------------------- bounds
MaxNameLen == 1   \* generated names have 1..MaxNameLen letters
MaxMounts  == 2   \* render calls per test
MaxTests   == 2   \* tests run one after the other in a file

\* ------------------------------------------------------------------ text
Hello == <<"H", "e", "l", "l", "o">>

HelloWorldText == Hello \o <<" ", "W", "o", "r", "l", "d", "!">>

Bob == <<"B", "o", "b">>

Alice == <<"A", "l", "i", "c", "e">>

Alphabet == {"o"}

Names == {Bob, Alice} \cup UNION {[1..k -> Alphabet] : k \in 1..MaxNameLen}

\* --------------------------------------------------------------- props
PropKeys == {"firstName", "name"}

NoProps == [k \in {} |-> <<>>]

\* A JSX attribute list with the single attribute key={n}.
OneProp(key, n) == [k \in {key} |-> n]

\* Reading a prop the caller did not pass gives undefined, which React
\* renders as no text at all.
Prop(props, key) == IF key \in DOMAIN props THEN props[key] ELSE <<>>

\* ---------------------------------------------------------- components
\* Variant: the heading is written with a comma.
HelloWorldComma(props) == Hello \o <<",", " ", "W", "o", "r", "l", "d", "!">>

\* export default function HelloWorld() { return <h1>Hello World!</h1> }
HelloWorld(props) == HelloWorldText

\* The component the repository's test imports: prop firstName, greeting
\* with a comma.
HelloPerson(props) == Hello \o <<",", " ">> \o Prop(props, "firstName") \o <<"!">>

\* The component as the README prints it: prop name, greeting without a
\* comma.
HelloPersonReadme(props) == Hello \o <<" ">> \o Prop(props, "name") \o <<"!">>

Components == {"HelloWorld", "HelloPerson", "HelloPersonReadme"}

RenderText(c, props) ==
    CASE c = "HelloWorld"        -> HelloWorld(props)
      [] c = "HelloPerson"       -> HelloPerson(props)
      [] c = "HelloPersonReadme" -> HelloPersonReadme(props)

\* ------------------------------------------------------------- patterns
\* A pattern is an exact string or a regular expression of literal
\* characters.
Exact(s) == [kind |-> "exact", re |-> s]

Regex(s) == [kind |-> "regex", re |-> s]

NoPattern == [kind |-> "none", re |-> <<>>]

\* Variant: the test queries for the greeting without the comma.
TestPatternNoComma(n) == Regex(Hello \o <<" ">> \o n \o <<"!">>)

\* screen.getByText(/Hello, Bob!/) of the repository's test, for any name
TestPattern(n) == Regex(Hello \o <<",", " ">> \o n \o <<"!">>)

\* screen.getByText("Hello Alice!") of the README's test, for any name
ReadmePattern(n) == Exact(Hello \o <<" ">> \o n \o <<"!">>)

\* a query for the bare name
NamePattern(n) == Regex(n)

\* screen.getByText("Hello World!")
HelloWorldPattern == Exact(HelloWorldText)

\* The name the README's component is rendered and queried with.
ReadmeNames == {Bob}

Patterns ==
    {HelloWorldPattern}
      \cup {TestPattern(n) : n \in Names}
      \cup {ReadmePattern(n) : n \in ReadmeNames}
      \cup {NamePattern(n) : n \in ReadmeNames}

\* Does the text s read re from position j on?
RECURSIVE MatchAt(_, _, _, _)
MatchAt(re, s, i, j) ==
    IF i > Len(re) THEN TRUE
    ELSE /\ j <= Len(s)
         /\ s[j] = re[i]
         /\ MatchAt(re, s, i + 1, j + 1)

\* An exact string matches the whole text; a regular expression matches
\* anywhere in it.
Matches(p, s) ==
    IF p.kind = "exact"
    THEN s = p.re
    ELSE \E j \in 1..(Len(s) + 1) : MatchAt(p.re, s, 1, j)

\* -------------------------------------------------------------- harness
\* The simulated document is the sequence of mounted trees, oldest first;
\* a tree is its handle and the text of its one heading.
Ids(doc) == {doc[i].id : i \in 1..Len(doc)}

\* render(<C .../>): attaches the rendered tree to the document.
Mount(doc, h, c, props) == Append(doc, [id |-> h, text |-> RenderText(c, props)])

\* Variant: a handle that is not attached detaches the newest tree.
UnmountOrLast(doc, h) ==
    IF \E i \in 1..Len(doc) : doc[i].id = h
    THEN SelectSeq(doc, LAMBDA t : t.id # h)
    ELSE SubSeq(doc, 1, Len(doc) - 1)

\* unmount(handle): detaches the tree of that handle, if it is attached.
Unmount(doc, h) == SelectSeq(doc, LAMBDA t : t.id # h)

\* cleanup(): unmounts every mounted tree.
Cleanup(doc) == SelectSeq(doc, LAMBDA t : FALSE)

\* The trees of the document whose text matches the pattern.
Matching(doc, p) == SelectSeq(doc, LAMBDA t : Matches(p, t.text))

NoQuery == [pattern |-> NoPattern, matches |-> 0, outcome |-> "none", node |-> 0]

\* screen.getByText(p): the one matching node, or an error.
GetByText(doc, p) ==
    LET m == Matching(doc, p) IN
    [pattern |-> p,
     matches |-> Len(m),
     outcome |-> IF Len(m) = 1 THEN "node"
                 ELSE IF Len(m) = 0 THEN "NotFoundError"
                 ELSE "AmbiguousMatchError",
     node    |-> IF Len(m) = 1 THEN m[1].id ELSE 0]

\* expect(node).toBeInTheDocument()
ToBeInTheDocument(doc, node) == node \in Ids(doc)

\* Variant: the hook is registered without the cleanup() call.
AfterEachHookNoCleanup(doc) == doc

\* Variant: the hook unmounts only the tree mounted last.
AfterEachHookLastOnly(doc) == SubSeq(doc, 1, Len(doc) - 1)

\* afterEach(() => { cleanup() })
AfterEachHook(doc) == Cleanup(doc)

\* ---------------------------------------------------------------- state
VARIABLES
    document,   \* the simulated document
    testNo,     \* number of tests completed (their hook has run)
    pc,         \* "start", "body", "assert", "hook"
    mounts,     \* render calls of the current test, in order
    reUnmount,  \* the last step unmounted an already unmounted tree
    query,      \* the query of the current test and its outcome
    expected,   \* the statement after the query has run
    result,     \* "none", "passed", "failed"
    prev        \* what the previous test rendered and how it ended

vars == <<document, testNo, pc, mounts, reUnmount, query, expected, result, prev>>

NoPrev == [last |-> <<>>, result |-> "none"]

\* The handle render() returns: trees are numbered in the order of their
\* mounting.
NextId == testNo * MaxMounts + Len(mounts) + 1

Handles == {mounts[i].id : i \in 1..Len(mounts)}

Init ==
    /\ document = <<>>
    /\ testNo = 0
    /\ pc = "start"
    /\ mounts = <<>>
    /\ reUnmount = FALSE
    /\ query = NoQuery
    /\ expected = FALSE
    /\ result = "none"
    /\ prev = NoPrev

\* The runner enters the next test function of the file.
StartTest ==
    /\ pc = "start"
    /\ testNo < MaxTests
    /\ pc' = "body"
    /\ UNCHANGED <<document, testNo, mounts, reUnmount, query, expected, result, prev>>

\* render(<C key={n} />)
RenderStep(c, props) ==
    /\ pc = "body"
    /\ Len(mounts) < MaxMounts
    /\ document' = Mount(document, NextId, c, props)
    /\ mounts' = Append(mounts, [id |-> NextId, c |-> c, props |-> props,
                                 text |-> RenderText(c, props)])
    /\ reUnmount' = FALSE
    /\ UNCHANGED <<testNo, pc, query, expected, result, prev>>

\* unmount() on the handle of a tree this test mounted
UnmountStep(h) ==
    /\ pc = "body"
    /\ h \in Handles
    /\ document' = Unmount(document, h)
    /\ reUnmount' = (h \notin Ids(document))
    /\ UNCHANGED <<testNo, pc, mounts, query, expected, result, prev>>

\* Variant: the test takes the first of all matches,
\* screen.getAllByText(p)[0].
QueryStepFirstMatch(p) ==
    /\ pc = "body"
    /\ LET m == Matching(document, p) IN
       query' = [pattern |-> p,
                 matches |-> Len(m),
                 outcome |-> IF Len(m) = 0 THEN "NotFoundError" ELSE "node",
                 node    |-> IF Len(m) = 0 THEN 0 ELSE m[1].id]
    /\ IF query'.outcome = "node"
       THEN /\ pc' = "assert"
            /\ result' = result
       ELSE /\ pc' = "hook"
            /\ result' = "failed"
    /\ reUnmount' = FALSE
    /\ UNCHANGED <<document, testNo, mounts, expected, prev>>

\* Variant: the test catches the query error and goes on to its next
\* statement.
QueryStepRecover(p) ==
    /\ pc = "body"
    /\ query' = GetByText(document, p)
    /\ pc' = "assert"
    /\ reUnmount' = FALSE
    /\ UNCHANGED <<document, testNo, mounts, expected, result, prev>>

\* const node = screen.getByText(p): a query error leaves the test
\* function at once and fails the test.
QueryStep(p) ==
    /\ pc = "body"
    /\ query' = GetByText(document, p)
    /\ IF query'.outcome = "node"
       THEN /\ pc' = "assert"
            /\ result' = result
       ELSE /\ pc' = "hook"
            /\ result' = "failed"
    /\ reUnmount' = FALSE
    /\ UNCHANGED <<document, testNo, mounts, expected, prev>>

\* expect(node).toBeInTheDocument(), the last statement of the test
ExpectStep ==
    /\ pc = "assert"
    /\ expected' = TRUE
    /\ result' = IF ToBeInTheDocument(document, query.node) THEN "passed" ELSE "failed"
    /\ pc' = "hook"
    /\ UNCHANGED <<document, testNo, mounts, reUnmount, query, prev>>

\* The runner calls the afterEach hook once the test function has ended,
\* passed or failed.
AfterEach ==
    /\ pc = "hook"
    /\ document' = AfterEachHook(document)
    /\ prev' = [last |-> IF mounts = <<>> THEN <<>> ELSE mounts[Len(mounts)].text,
                result |-> result]
    /\ testNo' = testNo + 1
    /\ pc' = "start"
    /\ mounts' = <<>>
    /\ reUnmount' = FALSE
    /\ query' = NoQuery
    /\ expected' = FALSE
    /\ result' = "none"

RenderInputs ==
    {<<"HelloWorld", NoProps>>}
      \cup {<<"HelloPerson", OneProp("firstName", n)>> : n \in Names}
      \cup {<<"HelloPersonReadme", OneProp(k, n)>> : k \in PropKeys, n \in ReadmeNames}

Next ==
    \/ StartTest
    \/ \E in \in RenderInputs : RenderStep(in[1], in[2])
    \/ \E h \in 1..(MaxMounts * MaxTests) : UnmountStep(h)
    \/ \E p \in Patterns : QueryStep(p)
    \/ ExpectStep
    \/ AfterEach

Spec == Init /\ [][Next]_vars

\* --------------------------------------------------------------- claims
Queried == query.outcome # "none"

\* The current test made exactly one render call, of component c with the
\* props given, and its tree is still attached.
OnlyMount(c, props) ==
    /\ Len(mounts) = 1
    /\ mounts[1].c = c
    /\ mounts[1].props = props
    /\ mounts[1].id \in Ids(document)

\* The trees of the current test that are still attached.
Attached == {i \in 1..Len(mounts) : mounts[i].id \in Ids(document)}

QueryErrors == {"NotFoundError", "AmbiguousMatchError"}

C2_HelloWorldOneMatch ==
    /\ \A i \in 1..Len(mounts) :
           mounts[i].c = "HelloWorld" => mounts[i].text = HelloWorldText
    /\ (Queried /\ query.pattern = HelloWorldPattern
                /\ Cardinality({i \in Attached : mounts[i].c = "HelloWorld"}) = 1)
           => /\ query.outcome = "node"
              /\ query.matches = 1

\* the previous test rendered "Hello World!" too, and this one still finds
\* one node
C2_Witness ==
    /\ testNo >= 1
    /\ prev.last = HelloWorldText
    /\ OnlyMount("HelloWorld", NoProps)
    /\ query.pattern = HelloWorldPattern
    /\ query.outcome = "node"

\* C3: when the hook has run, every query whose pattern matches a text the
\* ended test rendered fails with NotFoundError.
C3_PreviousTreeNotFound ==
    [][pc = "hook" =>
          \A p \in Patterns :
              (\E i \in 1..Len(mounts) : Matches(p, mounts[i].text))
                  => GetByText(document', p).outcome = "NotFoundError"]_vars

\* the hook has run after a test that left a tree mounted
C3_Witness ==
    /\ pc = "start"
    /\ testNo >= 1
    /\ prev.last # <<>>
    /\ GetByText(document, Exact(prev.last)).outcome = "NotFoundError"

\* C4: at the start of a test the document holds no tree, and no tree of an
\* earlier test is ever in the document, whether that test passed or failed.
C4_NoTreeSurvives ==
    /\ pc = "start" => document = <<>>
    /\ Ids(document) \subseteq Handles
    /\ pc = "hook" => result \in {"passed", "failed"}

\* a test that mounted a tree and failed on its query has been cleaned up
C4_Witness ==
    /\ pc = "start"
    /\ prev.result = "failed"
    /\ prev.last # <<>>
    /\ document = <<>>

\* C5: a query returns the node exactly when one tree matches, fails with
\* NotFoundError exactly when none does and with AmbiguousMatchError
\* exactly when several do.
C5_QueryOutcome ==
    Queried =>
        LET k == Len(Matching(document, query.pattern)) IN
        /\ query.outcome \in {"node"} \cup QueryErrors
        /\ query.outcome = "node" <=> k = 1
        /\ query.outcome = "NotFoundError" <=> k = 0
        /\ query.outcome = "AmbiguousMatchError" <=> k > 1
        /\ query.outcome = "node" =>
               \E i \in 1..Len(document) :
                   /\ document[i].id = query.node
                   /\ Matches(query.pattern, document[i].text)

\* a regular expression matched two trees of different text
C5_Witness ==
    /\ query.outcome = "AmbiguousMatchError"
    /\ Len(document) = 2
    /\ document[1].text # document[2].text

\* C6: in a test that renders only HelloPerson for Alice, the query for the
\* Alice greeting has one match and the queries for Bob fail with
\* NotFoundError.
C6_AliceNotBob ==
    (Queried /\ OnlyMount("HelloPerson", OneProp("firstName", Alice)))
        => /\ query.pattern = TestPattern(Alice)
                  => (query.outcome = "node" /\ query.matches = 1)
           /\ query.pattern \in {NamePattern(Bob), TestPattern(Bob), ReadmePattern(Bob)}
                  => query.outcome = "NotFoundError"

\* the test before rendered Bob; in the Alice tree the query for Bob finds
\* nothing
C6_Witness ==
    /\ prev.last = HelloPerson(OneProp("firstName", Bob))
    /\ OnlyMount("HelloPerson", OneProp("firstName", Alice))
    /\ query.pattern = NamePattern(Bob)
    /\ query.outcome = "NotFoundError"

\* C7: unmounting a tree that is already unmounted, and cleaning up a
\* document with nothing mounted, raise no error and leave the document as
\* it was.
C7_UnmountIdempotent ==
    [][/\ reUnmount' => (document' = document /\ result' = result /\ pc' = pc)
       /\ (pc = "hook" /\ document = <<>>) => document' = <<>>
       /\ \A h \in Handles :
              Unmount(Unmount(document, h), h) = Unmount(document, h)]_vars

\* a tree was unmounted a second time while another tree was attached
C7_Witness ==
    /\ reUnmount
    /\ document # <<>>

\* C8: a query that raised an error ends the test as failed, and the
\* statement after the query is not executed; a passed test had a query
\* that returned a node.
C8_QueryFailureFailsTest ==
    /\ query.outcome \in QueryErrors
           => (~expected /\ result = "failed" /\ pc = "hook")
    /\ result = "passed" => query.outcome = "node"

\* a query found nothing although a tree was mounted, and the test failed
C8_Witness ==
    /\ query.outcome = "NotFoundError"
    /\ document # <<>>
    /\ result = "failed"

\* C9: the component of the README, rendered for a name as the README does
\* (prop name), is found by the README's query and by the query of the
\* repository's test.
C9_ReadmeAgreesWithTest ==
    \A n \in ReadmeNames :
        (Queried /\ OnlyMount("HelloPersonReadme", OneProp("name", n))
                 /\ query.pattern \in {ReadmePattern(n), TestPattern(n)})
            => query.outcome = "node"

\* C10: a query whose pattern matches two trees that the test mounted with
\* the same text fails with AmbiguousMatchError; a test that made at most
\* one render call never gets AmbiguousMatchError.
C10_MountsAccumulate ==
    Queried =>
        /\ (\E i, j \in Attached :
                /\ i < j
                /\ mounts[i].text = mounts[j].text
                /\ Matches(query.pattern, mounts[i].text))
               => query.outcome = "AmbiguousMatchError"
        /\ Len(mounts) <= 1 => query.outcome # "AmbiguousMatchError"

\* the Bob greeting was mounted twice in one test, after a test that had
\* mounted it too
C10_Witness ==
    /\ prev.last = HelloPerson(OneProp("firstName", Bob))
    /\ Len(mounts) = 2
    /\ mounts[1].text = mounts[2].text
    /\ query.pattern = TestPattern(Bob)
    /\ query.outcome = "AmbiguousMatchError"
====
